---- MODULE Spec2Model ----
(***************************************************************************)
(* Model of main.py: the address-to-map pipeline.                          *)
(*   geocode_address      retry-once wrapper around geolocator.geocode     *)
(*   do_geocoding         read data.csv, geocode every row, write          *)
(*                        geocoded.csv, then check completeness            *)
(*   create_map_from_csv  existence gate on geocoded.csv, read it back,    *)
(*                        plot one marker per row, save address_map.png    *)
(* One run of the script is a sequence of steps; the steps are split at    *)
(* the calls to the geocoding service and at the file operations, which    *)
(* are the points where the environment is observed.                       *)
(***************************************************************************)
EXTENDS Integers, Sequences, FiniteSets, TLC

\* ---------------------------------------------------------------- bounds
MaxRows == 17       \* rows of data.csv range over 0..MaxRows
MaxFaults == 3      \* service responses per run that are not a location
MaxRuns == 2        \* invocations of the script

\* ------------------------------------------------------ program constants
BACKOFF == 2        \* time.sleep(2)

colors ==
    << "red", "blue", "green", "purple", "orange", "cyan", "magenta", "lime",
       "brown", "pink", "gray", "olive", "teal", "navy", "maroon", "gold" >>

VARIABLES
    pc,            \* position of the running script, "idle" between runs
    runs,          \* completed invocations
    numRows,       \* rows of INPUT_FILE (data.csv)
    cache,         \* content of GEOCODED_FILE, or NoFile
    cacheAtStart,  \* GEOCODED_FILE as the current run found it
    df,            \* the DataFrame of the current run
    applied,       \* tuples returned so far inside df['full_address'].apply
    call,          \* the current / most recent geocode_address call
    lookups,       \* geolocator.geocode requests issued in the current run
    inputReads,    \* pd.read_csv(INPUT_FILE) calls in the current run
    cacheReads,    \* pd.read_csv(GEOCODED_FILE) calls in the current run
    faults,        \* non-location service responses in the current run
    plotted,       \* the plotting loop of the current run has been entered
    markers,       \* ax.scatter calls of the current run, in order
    imageWritten,  \* fig.savefig ran in the current run
    err,           \* exception that ended the current run, or NoError
    prevErr        \* exception that ended the previous run, or NoError

vars == << pc, runs, numRows, cache, cacheAtStart, df, applied, call, lookups,
           inputReads, cacheReads, faults, plotted, markers, imageWritten, err,
           prevErr >>

\* ------------------------------------------------------------ data values
NoFile == [exists |-> FALSE, rows |-> << >>]
File(rows) == [exists |-> TRUE, rows |-> rows]

NoError == [type |-> "none", line |-> 0]
Error(t, l) == [type |-> t, line |-> l]

\* a DataFrame cell holding a coordinate: a float, None (from the tuple
\* geocode_address returns) or NaN (an empty field read back by read_csv)
Float(x) == [kind |-> "float", v |-> x]
None == [kind |-> "None", v |-> 0]
NaN == [kind |-> "NaN", v |-> 0]
isna(c) == c.kind \in {"None", "NaN"}

\* a field of the csv file
Text(x) == [kind |-> "text", v |-> x]
EmptyField == [kind |-> "empty", v |-> 0]

\* data.csv: columns address, city, state_abbr, zip, inst_name
InputTable(n) ==
    [i \in 1..n |-> [address |-> i, city |-> "city", state_abbr |-> "MA",
                     zip |-> "zip", inst_name |-> i]]

\* df["address"] + ', ' + df["city"] + ", " + df["state_abbr"] + " " + df["zip"]
FullAddress(r) == << r.address, ", ", r.city, ", ", r.state_abbr, " ", r.zip >>

\* the Location object the service answers with, when it has one for the
\* address; NoLocation is the None of "no match"
ServiceLocation(address) ==
    [found |-> TRUE, latitude |-> 40 + address[1],
     longitude |-> 0 - (70 + address[1])]
NoLocation == [found |-> FALSE, latitude |-> 0, longitude |-> 0]

Outcomes == {"location", "no_match", "GeocoderTimedOut", "GeocoderServiceError"}
ServiceErrors == {"GeocoderTimedOut", "GeocoderServiceError"}

\* ------------------------------------------------------- geocode_address
NoCall ==
    [address |-> << >>, lookups |-> 0, outcomes |-> << >>, notices |-> << >>,
     location |-> NoLocation, slept |-> 0, result |-> << >>, returned |-> FALSE, raised |-> FALSE]

NewCall(address) == [NoCall EXCEPT !.address = address]

\* print(...): the notice and the number of lookups made when it is printed
Notice(c, kind) == Append(c.notices, [kind |-> kind, after |-> c.lookups])

\* location = geolocator.geocode(address, timeout=10)
Looked(c, o) ==
    [c EXCEPT !.lookups = @ + 1, !.outcomes = Append(@, o),
              !.location = IF o = "location" THEN ServiceLocation(c.address)
                           ELSE NoLocation]

Return(c, latlon) == [c EXCEPT !.result = latlon, !.returned = TRUE]

\* (location.latitude, location.longitude)
LatLon(location) == << Float(location.latitude), Float(location.longitude) >>

\* lines 21-30: the first lookup
FirstAttempt_NoRetry(c, o) ==
    LET d == Looked(c, o) IN
    IF o = "location" THEN Return(d, LatLon(d.location))
    ELSE Return([d EXCEPT !.notices = Notice(d, "could_not_find")],
                << None, None >>)

FirstAttempt_RetryNoMatch(c, o) ==
    LET d == Looked(c, o) IN
    IF o = "location" THEN Return(d, LatLon(d.location))
    ELSE [d EXCEPT !.notices = Notice(d, "retrying"), !.slept = @ + BACKOFF]

FirstAttempt(c, o) ==
    LET d == Looked(c, o) IN
    IF o = "location" THEN Return(d, LatLon(d.location))
    ELSE IF o = "no_match"
    THEN Return([d EXCEPT !.notices = Notice(d, "could_not_find")],
                << None, None >>)
    ELSE [d EXCEPT !.notices = Notice(d, "retrying"), !.slept = @ + BACKOFF]

\* lines 31-38: the retry
Retry_Again(c, o) ==
    LET d == Looked(c, o) IN
    IF o = "location" THEN Return(d, LatLon(d.location))
    ELSE IF o = "no_match" THEN Return(d, << None, None >>)
    ELSE [d EXCEPT !.notices = Notice(d, "retrying"), !.slept = @ + BACKOFF]

Retry_Propagate(c, o) ==
    LET d == Looked(c, o) IN
    IF o = "location" THEN Return(d, LatLon(d.location))
    ELSE IF o = "no_match" THEN Return(d, << None, None >>)
    ELSE [d EXCEPT !.raised = TRUE]

Retry(c, o) ==
    LET d == Looked(c, o) IN
    IF o = "location" THEN Return(d, LatLon(d.location))
    ELSE IF o = "no_match" THEN Return(d, << None, None >>)
    ELSE Return([d EXCEPT !.notices = Notice(d, "failed_again")],
                << None, None >>)

\* --------------------------------------------------------- the csv file
ToCsvField(c) == IF isna(c) THEN EmptyField ELSE Text(c.v)
ParseField(f) == IF f.kind = "empty" THEN NaN ELSE Float(f.v)

\* df.to_csv(GEOCODED_FILE, index=False)
to_csv(d) ==
    File([i \in 1..Len(d) |->
            [inst_name |-> d[i].inst_name,
             full_address |-> d[i].full_address,
             latitude |-> ToCsvField(d[i].latitude),
             longitude |-> ToCsvField(d[i].longitude)]])

\* pd.read_csv(GEOCODED_FILE)
read_csv(f) ==
    [i \in 1..Len(f.rows) |->
        [inst_name |-> f.rows[i].inst_name,
         full_address |-> f.rows[i].full_address,
         latitude |-> ParseField(f.rows[i].latitude),
         longitude |-> ParseField(f.rows[i].longitude)]]

\* df.dropna(subset=['latitude', 'longitude'])
dropna(d) == SelectSeq(d, LAMBDA r : ~isna(r.latitude) /\ ~isna(r.longitude))

Range(f) == {f[i] : i \in DOMAIN f}

\* ------------------------------------------------------------------ Init
Init ==
    /\ pc = "idle"
    /\ runs = 0
    /\ numRows \in 0..MaxRows
    /\ cache = NoFile
    /\ cacheAtStart = NoFile
    /\ df = << >>
    /\ applied = << >>
    /\ call = NoCall
    /\ lookups = 0
    /\ inputReads = 0
    /\ cacheReads = 0
    /\ faults = 0
    /\ plotted = FALSE
    /\ markers = << >>
    /\ imageWritten = FALSE
    /\ err = NoError
    /\ prevErr = NoError

\* the run ends, normally or with an exception
Finish(e) ==
    /\ pc' = "idle"
    /\ runs' = runs + 1
    /\ err' = e

\* --------------------------------------------------- create_map_from_csv
\* line 74: if not Path(GEOCODED_FILE).exists()
NeedsGeocoding_Always(f) == TRUE
NeedsGeocoding_Incomplete(f) ==
    \/ ~f.exists
    \/ \E i \in 1..Len(f.rows) : f.rows[i].latitude.kind = "empty"
NeedsGeocoding(f) == ~f.exists

\* python main.py
StartRun ==
    /\ pc = "idle"
    /\ runs < MaxRuns
    /\ pc' = IF NeedsGeocoding(cache) THEN "do_geocoding" ELSE "read_csv"
    /\ cacheAtStart' = cache
    /\ prevErr' = err
    /\ err' = NoError
    /\ df' = << >>
    /\ applied' = << >>
    /\ call' = NoCall
    /\ lookups' = 0
    /\ inputReads' = 0
    /\ cacheReads' = 0
    /\ faults' = 0
    /\ plotted' = FALSE
    /\ markers' = << >>
    /\ imageWritten' = FALSE
    /\ UNCHANGED << runs, numRows, cache >>

\* the user removes geocoded.csv between two runs
DeleteCache ==
    /\ pc = "idle"
    /\ runs < MaxRuns
    /\ cache.exists
    /\ cache' = NoFile
    /\ UNCHANGED << pc, runs, numRows, cacheAtStart, df, applied, call, lookups,
                    inputReads, cacheReads, faults, plotted, markers, imageWritten,
                    err, prevErr >>

\* ---------------------------------------------------------- do_geocoding
\* lines 43-44: read data.csv and build the full_address column
ReadInput ==
    /\ pc = "do_geocoding"
    /\ inputReads' = inputReads + 1
    /\ df' = [i \in 1..numRows |->
                [inst_name |-> InputTable(numRows)[i].inst_name,
                 full_address |-> FullAddress(InputTable(numRows)[i])]]
    /\ pc' = "apply"
    /\ UNCHANGED << runs, numRows, cache, cacheAtStart, applied, call,
                    lookups, cacheReads, faults, plotted, markers, imageWritten, err,
                    prevErr >>

\* the service may answer with anything; only the number of answers that
\* are not a location is bounded
MayAnswer(o) == o = "location" \/ faults < MaxFaults

Answered(o) ==
    /\ lookups' = lookups + 1
    /\ faults' = IF o = "location" THEN faults ELSE faults + 1

\* geocode_address has returned or raised: back in apply, or the run ends
AfterCall(c) ==
    IF c.raised
    THEN /\ Finish(Error(c.outcomes[Len(c.outcomes)], 32))
         /\ UNCHANGED applied
    ELSE /\ pc' = IF c.returned THEN "apply" ELSE "retry"
         /\ applied' = IF c.returned THEN Append(applied, c.result) ELSE applied
         /\ UNCHANGED << runs, err >>

\* line 51 calls geocode_address for the next row; lines 21-30
Lookup1 ==
    /\ pc = "apply"
    /\ Len(applied) < Len(df)
    /\ \E o \in Outcomes :
         /\ MayAnswer(o)
         /\ Answered(o)
         /\ call' = FirstAttempt(NewCall(df[Len(applied) + 1].full_address), o)
    /\ AfterCall(call')
    /\ UNCHANGED << numRows, cache, cacheAtStart, df, inputReads, cacheReads, plotted,
                    markers, imageWritten, prevErr >>

\* lines 31-38, after time.sleep(2)
Lookup2 ==
    /\ pc = "retry"
    /\ \E o \in Outcomes :
         /\ MayAnswer(o)
         /\ Answered(o)
         /\ call' = Retry(call, o)
    /\ AfterCall(call')
    /\ UNCHANGED << numRows, cache, cacheAtStart, df, inputReads, cacheReads, plotted,
                    markers, imageWritten, prevErr >>

\* line 51 on a table without rows: Series.apply returns an empty Series,
\* which pandas either accepts for the two new columns or rejects with
\* "Columns must be same length as key", depending on its version
AssignEmpty ==
    /\ pc = "apply"
    /\ Len(df) = 0
    /\ \/ /\ pc' = "to_csv"
          /\ UNCHANGED << runs, err >>
       \/ Finish(Error("ValueError", 51))
    /\ UNCHANGED << numRows, cache, cacheAtStart, df, applied, call, lookups,
                    inputReads, cacheReads, faults, plotted, markers, imageWritten,
                    prevErr >>

\* line 51: the tuples become the latitude and longitude columns
AssignColumns ==
    /\ pc = "apply"
    /\ Len(df) > 0
    /\ Len(applied) = Len(df)
    /\ df' = [i \in 1..Len(df) |->
                [inst_name |-> df[i].inst_name,
                 full_address |-> df[i].full_address,
                 latitude |-> applied[i][1],
                 longitude |-> applied[i][2]]]
    /\ pc' = "to_csv"
    /\ UNCHANGED << runs, numRows, cache, cacheAtStart, applied, call,
                    lookups, inputReads, cacheReads, faults, plotted, markers,
                    imageWritten, err, prevErr >>

\* line 56: df.to_csv(GEOCODED_FILE, index=False)
SaveCsv ==
    /\ pc = "to_csv"
    /\ cache' = to_csv(df)
    /\ pc' = "check"
    /\ UNCHANGED << runs, numRows, cacheAtStart, df, applied, call, lookups,
                    inputReads, cacheReads, faults, plotted, markers, imageWritten, err,
                    prevErr >>

\* lines 59-66: the completeness check. The message of the ValueError calls
\* df.isna(subset=...); DataFrame.isna takes no argument, so building the
\* message raises TypeError and the ValueError is never constructed.
CompletenessError == Error("TypeError", 65)

CheckComplete ==
    /\ pc = "check"
    /\ IF Len(dropna(df)) # Len(df)
       THEN Finish(CompletenessError)
       ELSE /\ pc' = "read_csv"
            /\ UNCHANGED << runs, err >>
    /\ UNCHANGED << numRows, cache, cacheAtStart, df, applied, call, lookups,
                    inputReads, cacheReads, faults, plotted, markers, imageWritten,
                    prevErr >>

\* ------------------------------------------- create_map_from_csv, cont.
\* lines 78-82: read geocoded.csv back; an empty table ends the run
ReadCache ==
    /\ pc = "read_csv"
    /\ cacheReads' = cacheReads + 1
    /\ IF ~cache.exists
       THEN /\ Finish(Error("FileNotFoundError", 78))
            /\ UNCHANGED df
       ELSE /\ df' = read_csv(cache)
            /\ IF Len(df') = 0
               THEN Finish(NoError)
               ELSE /\ pc' = "plot"
                    /\ UNCHANGED << runs, err >>
    /\ UNCHANGED << numRows, cache, cacheAtStart, applied, call, lookups,
                    inputReads, faults, plotted, markers, imageWritten,
                    prevErr >>

Min(a, b) == IF a < b THEN a ELSE b

\* line 110: color = colors[index], index being the 0-based row label
ColorOf(index) == colors[index + 1]
InRange(index) == index < Len(colors)

\* lines 111-114: ax.scatter(row['longitude'], row['latitude'], ...)
Scatter(row, color) ==
    [x |-> row.longitude, y |-> row.latitude, color |-> color,
     label |-> row.inst_name]

\* lines 108-114: the loop over df.iterrows(); it stops at the first index
\* the palette does not have
PlotPoints ==
    /\ pc = "plot"
    /\ plotted' = TRUE
    /\ markers' = [i \in 1..Min(Len(df), Len(colors)) |->
                     Scatter(df[i], ColorOf(i - 1))]
    /\ IF \E i \in 1..Len(df) : ~InRange(i - 1)
       THEN Finish(Error("IndexError", 110))
       ELSE /\ pc' = "savefig"
            /\ UNCHANGED << runs, err >>
    /\ UNCHANGED << numRows, cache, cacheAtStart, df, applied, call, lookups,
                    inputReads, cacheReads, faults, imageWritten, prevErr >>

\* lines 123-124: Series.min() and max() skip NaN and are NaN only when no
\* row has a value
HasExtent(d) ==
    /\ \E i \in 1..Len(d) : ~isna(d[i].longitude)
    /\ \E i \in 1..Len(d) : ~isna(d[i].latitude)

\* lines 123-131: set the extent, draw the legend, save the figure. With a
\* NaN extent the plotting library either rejects the limits or goes on.
SaveMap ==
    /\ pc = "savefig"
    /\ \/ /\ imageWritten' = TRUE
          /\ Finish(NoError)
       \/ /\ ~HasExtent(df)
          /\ Finish(Error("ValueError", 126))
          /\ UNCHANGED imageWritten
    /\ UNCHANGED << numRows, cache, cacheAtStart, df, applied, call, lookups,
                    inputReads, cacheReads, faults, plotted, markers, prevErr >>

Next ==
    \/ StartRun
    \/ DeleteCache
    \/ ReadInput
    \/ Lookup1
    \/ Lookup2
    \/ AssignEmpty
    \/ AssignColumns
    \/ SaveCsv
    \/ CheckComplete
    \/ ReadCache
    \/ PlotPoints
    \/ SaveMap

Spec == Init /\ [][Next]_vars

\* ----------------------------------------------------------- properties
Absent == << None, None >>
RunOver == pc = "idle" /\ runs > 0
Unresolved(d) == Len(dropna(d)) # Len(d)
LastOutcome(c) == c.outcomes[Len(c.outcomes)]

\* C1: one call of geocode_address issues at most two lookup requests,
\* whatever the service answers on each attempt.
C1_AtMostTwoLookups ==
    /\ call.lookups <= 2
    /\ call.lookups = Len(call.outcomes)
    /\ lookups <= 2 * Len(df)

C1_Witness ==
    /\ call.returned
    /\ call.lookups = 2
    /\ call.outcomes[1] \in ServiceErrors

\* C2: geocode_address never raises to do_geocoding: a service error on the
\* first attempt leads to the retry, a service error on the retry ends the
\* call with the absent result (None, None).
C2_NeverRaises ==
    /\ ~call.raised
    /\ err.type \notin ServiceErrors
    /\ (Len(call.outcomes) = 1 /\ call.outcomes[1] \in ServiceErrors)
          => (~call.returned /\ pc = "retry")
    /\ (Len(call.outcomes) = 2 /\ call.outcomes[2] \in ServiceErrors)
          => (call.returned /\ call.result = Absent)

C2_Witness ==
    /\ Len(call.outcomes) = 2
    /\ call.outcomes[2] \in ServiceErrors
    /\ call.returned
    /\ applied # << >>
    /\ applied[Len(applied)] = Absent

\* C3: after a service error on the first lookup the call sleeps the backoff
\* and retries exactly once: two errors give exactly two lookups and absent
\* coordinates, a location on the second attempt gives that location's
\* (latitude, longitude).
C3_RetryOnce ==
    (call.lookups >= 1 /\ call.outcomes[1] \in ServiceErrors) =>
        /\ call.slept = BACKOFF
        /\ call.returned <=> call.lookups = 2
        /\ call.returned =>
              /\ LastOutcome(call) \in ServiceErrors => call.result = Absent
              /\ LastOutcome(call) = "location" =>
                    /\ call.location = ServiceLocation(call.address)
                    /\ call.result = << Float(call.location.latitude),
                                        Float(call.location.longitude) >>

C3_Witness ==
    /\ call.returned
    /\ call.outcomes[1] \in ServiceErrors
    /\ LastOutcome(call) = "location"
    /\ call.result[1].kind = "float"

\* C4: when geocoded.csv exists at the start of a run, the run makes no
\* lookup, does not read data.csv and leaves geocoded.csv as it found it,
\* complete or not (afterwards only the user removes the file).
C4_CacheGate ==
    cacheAtStart.exists =>
        /\ lookups = 0
        /\ inputReads = 0
        /\ call = NoCall
        /\ cache = cacheAtStart \/ (pc = "idle" /\ cache = NoFile)

C4_Witness ==
    /\ cacheAtStart.exists
    /\ RunOver
    /\ cacheReads = 1
    /\ Unresolved(df)
    /\ cache = cacheAtStart

\* C5: without a cache file do_geocoding writes all input rows before the
\* completeness check; with an unresolved row the run then fails with the
\* completeness error (the ValueError of line 63), the file being written
\* and no image being written.
C5_PersistThenCompletenessError ==
    ~cacheAtStart.exists =>
        /\ pc = "check" => (cache.exists /\ Len(cache.rows) = numRows)
        /\ (RunOver /\ Len(applied) = numRows /\ Absent \in Range(applied)) =>
              /\ err = Error("ValueError", 63)
              /\ ~imageWritten
              /\ cache.exists => Len(cache.rows) = numRows

\* C6: a marker is plotted only for rows with both coordinates, and a run
\* whose table has no such row ends with no image and no exception.
C6_DropAbsentRows ==
    /\ \A i \in 1..Len(markers) : ~isna(markers[i].x) /\ ~isna(markers[i].y)
    /\ (RunOver /\ cacheReads = 1 /\ dropna(df) = << >>) =>
          (~imageWritten /\ err = NoError)

\* C7: the marker of row index i gets palette entry i modulo 16, for any
\* number of rows, the colour lookup never fails, and up to 16 rows get
\* distinct colours.
C7_CyclicColors ==
    /\ err.type # "IndexError"
    /\ plotted =>
          /\ Len(markers) = Len(df)
          /\ \A i \in 1..Len(markers) :
                markers[i].color = colors[((i - 1) % Len(colors)) + 1]
          /\ Len(df) <= Len(colors) =>
                \A i, j \in 1..Len(markers) :
                    markers[i].color = markers[j].color => i = j

\* C8: the run after one that failed the completeness check, the file not
\* having been removed, makes no lookup, does not fail the completeness
\* check and reaches the plotting step with the partial table.
C8_PartialCacheReused ==
    (prevErr = CompletenessError /\ cacheAtStart.exists) =>
        /\ lookups = 0
        /\ inputReads = 0
        /\ err # CompletenessError
        /\ cacheReads = 1 => (df = read_csv(cacheAtStart) /\ Unresolved(df))
        /\ RunOver => (cacheReads = 1 /\ plotted)

C8_Witness ==
    /\ prevErr = CompletenessError
    /\ cacheAtStart.exists
    /\ RunOver
    /\ plotted
    /\ Unresolved(df)

\* C9: a first lookup that returns no match is not retried: exactly one
\* lookup, one notice for the address, both coordinates absent.
C9_NoMatchNotRetried ==
    (call.lookups >= 1 /\ call.outcomes[1] = "no_match") =>
        /\ call.returned
        /\ call.lookups = 1
        /\ call.notices = << [kind |-> "could_not_find", after |-> 1] >>
        /\ call.result = Absent
        /\ call.slept = 0

C9_Witness ==
    /\ call.returned
    /\ call.outcomes = << "no_match" >>
    /\ applied[Len(applied)] = Absent

\* C10: every call that returns absent coordinates after two lookups has
\* printed a failure notice after the second lookup.
C10_NoticeAfterFailedRetry ==
    (call.returned /\ call.lookups = 2 /\ call.result = Absent) =>
        /\ call.notices # << >>
        /\ call.notices[Len(call.notices)].after = 2

====
